---- MODULE Spec2Model ----
(***************************************************************************)
(* add-to-steam.py: registers the Minecraft Splitscreen launcher in        *)
(* Steam's binary shortcuts.vdf and downloads SteamGridDB artwork.         *)
(*                                                                         *)
(* Strings are sequences of Unicode code points, bytes objects are         *)
(* sequences of 0..255.  A 32-bit unsigned word is the pair <<hi, lo>> of  *)
(* its 16-bit halves (value hi * 65536 + lo).                              *)
(***************************************************************************)
EXTENDS Integers, Sequences, FiniteSets, TLC

\* ------------------------------------------------------------------------
\* Bounds of the model
\* ------------------------------------------------------------------------
\* number of invocations of the script in one behaviour
MaxRuns == 2
\* number of failing artwork fetches in one behaviour
MaxFailures == 1
\* largest record index drawn for the encoder in the function-level checks
MaxIndex == 12

\* ------------------------------------------------------------------------
\* String and byte helpers (Python built-ins used by the script)
\* ------------------------------------------------------------------------
\* UTF-8 bytes of one code point below 0x10000
Utf8Char(c) ==
    IF c < 128 THEN << c >>
    ELSE IF c < 2048 THEN << 192 + (c \div 64), 128 + (c % 64) >>
    ELSE << 224 + (c \div 4096), 128 + ((c \div 64) % 64), 128 + (c % 64) >>

RECURSIVE Utf8Encode(_)
\* str.encode(): the UTF-8 bytes of the code points, in order (the string is
\* encoded half by half to keep the evaluation shallow)
Utf8Encode(s) ==
    IF s = << >> THEN << >>
    ELSE IF Len(s) = 1 THEN Utf8Char(s[1])
    ELSE LET h == Len(s) \div 2
         IN  Utf8Encode(SubSeq(s, 1, h)) \o Utf8Encode(SubSeq(s, h + 1, Len(s)))

RECURSIVE DecStr(_)
\* str(n) for a non-negative int: its decimal digits
DecStr(n) ==
    IF n < 10 THEN << 48 + n >> ELSE DecStr(n \div 10) \o << 48 + (n % 10) >>

RECURSIVE DecStr32(_)
\* str(n) for a 32-bit word <<hi, lo>>: long division by ten
DecStr32(w) ==
    LET hi == w[1]
        lo == w[2]
        t  == (hi % 10) * 65536 + lo
        q  == << hi \div 10, t \div 10 >>
    IN  IF hi = 0 /\ lo < 10 THEN << 48 + lo >>
        ELSE DecStr32(q) \o << 48 + (t % 10) >>

\* struct.pack("<I", n): four bytes, least significant first
PackLE32(w) ==
    << w[2] % 256, w[2] \div 256, w[1] % 256, w[1] \div 256 >>

IsDigit(b) == b >= 48 /\ b <= 57

RECURSIVE ParseInt(_, _)
\* int(b"digits"): value of a run of ASCII digits (acc is the value so far)
ParseInt(ds, acc) ==
    IF ds = << >> THEN acc ELSE ParseInt(Tail(ds), acc * 10 + (Head(ds) - 48))

\* bytes.endswith / startswith
EndsWith(blob, suffix) ==
    /\ Len(blob) >= Len(suffix)
    /\ SubSeq(blob, Len(blob) - Len(suffix) + 1, Len(blob)) = suffix

StartsWith(blob, prefix) ==
    /\ Len(blob) >= Len(prefix)
    /\ SubSeq(blob, 1, Len(prefix)) = prefix

\* ------------------------------------------------------------------------
\* Bit operations on 16-bit halves and 32-bit words
\* ------------------------------------------------------------------------
RECURSIVE Xor16(_, _)
Xor16(a, b) ==
    IF a = 0 THEN b
    ELSE IF b = 0 THEN a
    ELSE ((a + b) % 2) + 2 * Xor16(a \div 2, b \div 2)

RECURSIVE Or16(_, _)
Or16(a, b) ==
    IF a = 0 THEN b
    ELSE IF b = 0 THEN a
    ELSE (IF (a % 2) + (b % 2) > 0 THEN 1 ELSE 0) + 2 * Or16(a \div 2, b \div 2)

RECURSIVE And16(_, _)
And16(a, b) ==
    IF a = 0 \/ b = 0 THEN 0
    ELSE ((a % 2) * (b % 2)) + 2 * And16(a \div 2, b \div 2)

Xor32(v, w) == << Xor16(v[1], w[1]), Xor16(v[2], w[2]) >>
Or32(v, w)  == << Or16(v[1], w[1]), Or16(v[2], w[2]) >>
And32(v, w) == << And16(v[1], w[1]), And16(v[2], w[2]) >>
\* logical shift right by one bit and by eight bits
Shr1(w) == << w[1] \div 2, (w[2] \div 2) + (w[1] % 2) * 32768 >>
Shr8(w) == << w[1] \div 256, (w[2] \div 256) + (w[1] % 256) * 256 >>

\* ------------------------------------------------------------------------
\* zlib.crc32
\* ------------------------------------------------------------------------
\* reflected CRC-32 polynomial 0xEDB88320
CrcPoly == << 60856, 33568 >>

RECURSIVE CrcBits(_, _)
\* k rounds of the bitwise CRC step on word c
CrcBits(c, k) ==
    IF k = 0 THEN c
    ELSE CrcBits(IF c[2] % 2 = 1 THEN Xor32(CrcPoly, Shr1(c)) ELSE Shr1(c), k - 1)

\* the 256-entry lookup table of zlib's crc32
CrcTable == [n \in 0..255 |-> CrcBits(<< 0, n >>, 8)]

\* one byte through the table: table[(crc ^ b) & 0xFF] ^ (crc >> 8)
CrcByte(crc, b) == Xor32(CrcTable[Xor16(crc[2] % 256, b)], Shr8(crc))

\* a 32-bit word: both halves within 16 bits
IsWord32(w) == w[1] \in 0..65535 /\ w[2] \in 0..65535

RECURSIVE CrcUpdate(_, _)
\* the bytes are fed in order; feeding a concatenation is feeding its first
\* half and then its second half.  The running value is a 32-bit word at
\* every step (testing it first also keeps the evaluation shallow).
CrcUpdate(crc, bytes) ==
    IF ~ IsWord32(crc) \/ bytes = << >> THEN crc
    ELSE IF Len(bytes) = 1 THEN CrcByte(crc, bytes[1])
    ELSE LET h == Len(bytes) \div 2
         IN  CrcUpdate(CrcUpdate(crc, SubSeq(bytes, 1, h)),
                       SubSeq(bytes, h + 1, Len(bytes)))

\* zlib.crc32(bytes): initial value and final xor are 0xFFFFFFFF
Crc32(bytes) == Xor32(CrcUpdate(<< 65535, 65535 >>, bytes), << 65535, 65535 >>)

\* ------------------------------------------------------------------------
\* Environment of the script: home directory and files on disk
\* ------------------------------------------------------------------------
\* $HOME, "/h"
Home == << 47, 104 >>
\* the one all-digit directory name under userdata, "1"
SteamUser == << 49 >>

\* os.path.expanduser (126 is "~", 47 is "/"): "~" and "~/..." are replaced by $HOME, "~name" (no
\* such user) and everything else is returned unchanged
Expanduser(path) ==
    IF path # << >> /\ Head(path) = 126 /\ (Len(path) = 1 \/ path[2] = 47)
    THEN Home \o Tail(path)
    ELSE path

\* os.path.join(a, b)
PathJoin(a, b) ==
    IF b # << >> /\ Head(b) = 47 THEN b
    ELSE IF a = << >> \/ a[Len(a)] = 47 THEN a \o b
    ELSE a \o << 47 >> \o b

\* "/r", "/pnq", "/h/r": launcher scripts that exist on disk
ExistingFiles == { << 47, 114 >>, << 47, 112, 110, 113 >>, << 47, 104, 47, 114 >> }
\* "/d", "/w": directories that exist on disk
ExistingDirs == { << 47, 100 >>, << 47, 119 >> }

\* command lines (sys.argv) the script is started with; the last three are
\* rejected by the argument checks
ScriptName == << 97 >>
LauncherName == << 80 >>
Argvs ==
    { << ScriptName, << 47, 114 >>, << 47, 100 >>, LauncherName >>,
      << ScriptName, << 47, 112, 110, 113 >>, << 47, 100 >>, LauncherName >>,
      << ScriptName, << 126, 47, 114 >>, << 47, 119 >>, LauncherName >>,
      << ScriptName, << 47, 114 >> >>,
      << ScriptName, << 47, 120 >>, << 47, 100 >>, LauncherName >>,
      << ScriptName, << 47, 114 >>, << 47, 120 >>, LauncherName >> }

\* ------------------------------------------------------------------------
\* State
\* ------------------------------------------------------------------------
VARIABLES
    steam,      \* ~/.steam/steam/userdata: [exists, names] (names = os.listdir)
    vdf,        \* shortcuts.vdf on disk: [exists, bytes]
    grid,       \* files of the grid directory: file name -> content
    pc,         \* position of the running invocation
    argv,       \* sys.argv
    EXE, STARTDIR, user_id, data, index, appid, entry,   \* script globals
    asset,      \* position of the artwork loop in STEAMGRIDDB_IMAGES
    exitcode,   \* exit status of the invocation (-1 while it runs)
    runs,       \* invocations started so far
    failures,   \* failed artwork fetches so far
    vdfInit,    \* shortcuts.vdf before the first invocation
    vdf0,       \* shortcuts.vdf when the current invocation started
    assigned,   \* indices of the records written so far, in order
    attempts,   \* artwork loop log of the current invocation
    pB, pI, pName, pExe, pDir, pId, pR, pOut, pNext, pStep
                \* inputs and results of the function-level checks

progVars == << steam, vdf, grid, pc, argv, EXE, STARTDIR, user_id, data, index,
               appid, entry, asset, exitcode, runs, failures, vdfInit, vdf0,
               assigned, attempts >>
pureVars == << pB, pI, pName, pExe, pDir, pId, pR, pOut, pNext, pStep >>
vars == << progVars, pureVars >>

\* ------------------------------------------------------------------------
\* Program constants
\* ------------------------------------------------------------------------
\* "Minecraft Splitscreen"
APPNAME == << 77, 105, 110, 101, 99, 114, 97, 102, 116, 32, 83, 112, 108,
              105, 116, 115, 99, 114, 101, 101, 110 >>

\* suffix and URL extension of the five artwork files, in dict order
STEAMGRIDDB_IMAGES ==
    << [suffix |-> "p",     urlext |-> ".png"],
       [suffix |-> "",      urlext |-> ".jpg"],
       [suffix |-> "_hero", urlext |-> ".png"],
       [suffix |-> "_logo", urlext |-> ".png"],
       [suffix |-> "_icon", urlext |-> ".ico"] >>

\* expanduser("~/.steam/steam/userdata")
userdata ==
    Expanduser(<< 126, 47, 46, 115, 116, 101, 97, 109, 47, 115, 116, 101, 97,
                  109, 47, 117, 115, 101, 114, 100, 97, 116, 97 >>)

\* os.path.join(userdata, user_id, "config")
config_dir ==
    PathJoin(PathJoin(userdata, user_id), << 99, 111, 110, 102, 105, 103 >>)

\* b"\x00shortcuts\x00": header of shortcuts.vdf
Header == << 0, 115, 104, 111, 114, 116, 99, 117, 116, 115, 0 >>
\* b"\x08\x08": end of the shortcuts collection
Terminator == << 8, 8 >>
\* content written when shortcuts.vdf is missing
Skeleton == Header \o Terminator

\* ------------------------------------------------------------------------
\* get_latest_index
\* ------------------------------------------------------------------------
\* re.findall(rb"\x00(\d+)\x00", data).  A match starts at a zero byte p, runs
\* over one or more ASCII digits and ends at the next zero byte.  The scan is
\* left to right and matches do not overlap: a candidate that starts at the
\* closing zero of a match is passed over.
Zeros(blob) == { p \in 1..Len(blob) : blob[p] = 0 }

\* the closing zero of a candidate that starts at p (0 when there is none)
MatchEnd(blob, p) ==
    LET later == { z \in Zeros(blob) : z > p }
        e == CHOOSE z \in later : \A y \in later : z <= y
    IN  IF later = { } THEN 0
        ELSE IF e > p + 1 /\ \A q \in (p + 1)..(e - 1) : IsDigit(blob[q]) THEN e
        ELSE 0

Candidates(blob) == { p \in Zeros(blob) : MatchEnd(blob, p) # 0 }

RECURSIVE IsMatch(_, _)
\* candidate p is a match unless the candidate closing at p is a match
IsMatch(blob, p) ==
    LET before == { c \in Candidates(blob) : MatchEnd(blob, c) = p }
    IN  \A c \in before : ~ IsMatch(blob, c)

\* start positions of the matches findall returns
Matches(blob) == { p \in Candidates(blob) : IsMatch(blob, p) }

\* variant: 0 instead of -1 when nothing matches
get_latest_index_ZeroWhenEmpty(blob) ==
    LET matches == Matches(blob)
        last == CHOOSE p \in matches : \A q \in matches : q <= p
    IN  IF matches # { }
        THEN ParseInt(SubSeq(blob, last + 1, MatchEnd(blob, last) - 1), 0)
        ELSE 0

get_latest_index(blob) ==
    LET matches == Matches(blob)
        last == CHOOSE p \in matches : \A q \in matches : q <= p
    IN  IF matches # { }
        THEN ParseInt(SubSeq(blob, last + 1, MatchEnd(blob, last) - 1), 0)
        ELSE -1

\* ------------------------------------------------------------------------
\* make_entry and the appid
\* ------------------------------------------------------------------------
\* variant: the StartDir field is emitted before the exe field
make_entry_Swapped(i, id, appname, exe, startdir) ==
       << 0 >> \o DecStr(i) \o << 0 >>
    \o << 2 >> \o << 97, 112, 112, 105, 100 >> \o << 0 >> \o PackLE32(id)
    \o << 1 >> \o << 97, 112, 112, 110, 97, 109, 101 >> \o << 0 >>
       \o Utf8Encode(appname) \o << 0 >>
    \o << 1 >> \o << 83, 116, 97, 114, 116, 68, 105, 114 >> \o << 0 >>
       \o Utf8Encode(startdir) \o << 0 >>
    \o << 1 >> \o << 101, 120, 101 >> \o << 0 >> \o Utf8Encode(exe) \o << 0 >>
    \o << 1 >> \o << 105, 99, 111, 110 >> \o << 0 >>
       \o Utf8Encode(config_dir) \o << 47, 103, 114, 105, 100, 47 >>
       \o DecStr32(id) \o << 95, 105, 99, 111, 110, 46, 105, 99, 111 >>
       \o << 0 >>
    \o << 8 >>

make_entry(i, id, appname, exe, startdir) ==
       << 0 >> \o DecStr(i) \o << 0 >>
    \o << 2 >> \o << 97, 112, 112, 105, 100 >> \o << 0 >> \o PackLE32(id)
    \o << 1 >> \o << 97, 112, 112, 110, 97, 109, 101 >> \o << 0 >>
       \o Utf8Encode(appname) \o << 0 >>
    \o << 1 >> \o << 101, 120, 101 >> \o << 0 >> \o Utf8Encode(exe) \o << 0 >>
    \o << 1 >> \o << 83, 116, 97, 114, 116, 68, 105, 114 >> \o << 0 >>
       \o Utf8Encode(startdir) \o << 0 >>
    \o << 1 >> \o << 105, 99, 111, 110 >> \o << 0 >>
       \o Utf8Encode(config_dir) \o << 47, 103, 114, 105, 100, 47 >>
       \o DecStr32(id) \o << 95, 105, 99, 111, 110, 46, 105, 99, 111 >>
       \o << 0 >>
    \o << 8 >>

\* variant: the top bit is not set
AppIdNoTopBit(name, exe) ==
    And32(Crc32(Utf8Encode(name \o exe)), << 65535, 65535 >>)

\* 0x80000000 | zlib.crc32((name + exe).encode("utf-8")) & 0xFFFFFFFF
AppId(name, exe) ==
    Or32(<< 32768, 0 >>, And32(Crc32(Utf8Encode(name \o exe)), << 65535, 65535 >>))

\* variant: the slice drops one byte instead of two
SpliceOffByOne(blob, rec) ==
    SubSeq(blob, 1, Len(blob) - 1) \o rec \o Terminator

\* variant: the entry is appended after the terminator
SpliceAppend(blob, rec) == blob \o rec

\* data[:-2] + entry + b"\x08\x08"
Splice(blob, rec) ==
    SubSeq(blob, 1, Len(blob) - 2) \o rec \o Terminator

\* ------------------------------------------------------------------------
\* Initial states
\* ------------------------------------------------------------------------
Absent == [exists |-> FALSE, bytes |-> << >>]
File(b) == [exists |-> TRUE, bytes |-> b]

\* a record as Steam writes it: index 0, appname "A"
SteamRecord == << 0, 48, 0, 1, 97, 112, 112, 110, 97, 109, 101, 0, 65, 0, 8 >>

\* shortcuts.vdf as found on disk: missing, empty collection, one record,
\* and a file cut off before the second terminator byte
InitialFiles ==
    { Absent,
      File(Skeleton),
      File(Header \o SteamRecord \o Terminator),
      File(Header \o SteamRecord) }

\* the userdata directory: missing, without a user directory, or holding
\* "ac" and the user directory "1"
SteamStates ==
    { [exists |-> FALSE, names |-> << >>],
      [exists |-> TRUE,  names |-> << << 97, 99 >> >>],
      [exists |-> TRUE,  names |-> << << 97, 99 >>, SteamUser >>] }

\* str.isdigit for the ASCII names of the model
IsDigitName(n) == n # << >> /\ \A i \in 1..Len(n) : IsDigit(n[i])

\* next((d for d in os.listdir(userdata) if d.isdigit()), None); << >> is None
FirstUser(names) ==
    LET hits == { i \in 1..Len(names) : IsDigitName(names[i]) }
    IN  IF hits = { } THEN << >>
        ELSE names[CHOOSE i \in hits : \A j \in hits : i <= j]

NoWord == << 0, 0 >>

ProcInit ==
    /\ pc = "idle"
    /\ argv = << >>
    /\ EXE = << >>
    /\ STARTDIR = << >>
    /\ data = << >>
    /\ index = -1
    /\ appid = NoWord
    /\ entry = << >>
    /\ asset = 0
    /\ exitcode = -1
    /\ attempts = << >>

PureIdle ==
    /\ pB = << >> /\ pI = 0 /\ pName = << >> /\ pExe = << >> /\ pDir = << >>
    /\ pId = NoWord /\ pR = << >> /\ pOut = << >> /\ pNext = -1
    /\ pStep = "off"

Init ==
    /\ steam \in SteamStates
    /\ vdf \in InitialFiles
    /\ (vdf.exists => FirstUser(steam.names) # << >>)
    /\ grid = << >>
    /\ user_id = << >>
    /\ ProcInit
    /\ runs = 0
    /\ failures = 0
    /\ vdfInit = vdf
    /\ vdf0 = vdf
    /\ assigned = << >>
    /\ PureIdle

\* ------------------------------------------------------------------------
\* One invocation of the script
\* ------------------------------------------------------------------------
\* sys.exit(code)
Exit(code) == pc' = "exited" /\ exitcode' = code

\* the interpreter starts with a command line; globals are not yet bound
Invoke ==
    /\ pc \in { "idle", "exited" }
    /\ runs < MaxRuns
    /\ \E av \in Argvs : argv' = av
    /\ pc' = "args"
    /\ runs' = runs + 1
    /\ EXE' = << >> /\ STARTDIR' = << >> /\ user_id' = << >> /\ data' = << >>
    /\ index' = -1 /\ appid' = NoWord /\ entry' = << >> /\ asset' = 0
    /\ exitcode' = -1 /\ attempts' = << >>
    /\ vdf0' = vdf
    /\ UNCHANGED << steam, vdf, grid, failures, vdfInit, assigned, pureVars >>

\* argument count, expanduser and the existence checks
ParseArgs ==
    /\ pc = "args"
    /\ IF Len(argv) # 4
       THEN Exit(1) /\ UNCHANGED << EXE, STARTDIR >>
       ELSE /\ EXE' = Expanduser(argv[2])
            /\ STARTDIR' = Expanduser(argv[3])
            /\ IF EXE' \notin ExistingFiles THEN Exit(1)
               ELSE IF STARTDIR' \notin ExistingDirs THEN Exit(1)
               ELSE pc' = "locate" /\ UNCHANGED exitcode
    /\ UNCHANGED << steam, vdf, grid, argv, user_id, data, index, appid, entry,
                    asset, runs, failures, vdfInit, vdf0, assigned, attempts,
                    pureVars >>

\* userdata directory and the first all-digit user directory in it
LocateShortcuts ==
    /\ pc = "locate"
    /\ IF ~ steam.exists
       THEN Exit(1) /\ UNCHANGED user_id
       ELSE /\ user_id' = FirstUser(steam.names)
            /\ IF user_id' = << >> THEN Exit(1)
               ELSE pc' = "ensure" /\ UNCHANGED exitcode
    /\ UNCHANGED << steam, vdf, grid, argv, EXE, STARTDIR, data, index, appid,
                    entry, asset, runs, failures, vdfInit, vdf0, assigned,
                    attempts, pureVars >>

\* create shortcuts.vdf as the empty collection when it is missing
EnsureExists ==
    /\ pc = "ensure"
    /\ vdf' = IF ~ vdf.exists THEN File(Skeleton) ELSE vdf
    /\ pc' = "read"
    /\ UNCHANGED << steam, grid, argv, EXE, STARTDIR, user_id, data, index,
                    appid, entry, asset, exitcode, runs, failures, vdfInit,
                    vdf0, assigned, attempts, pureVars >>

\* read the whole file into memory
ReadData ==
    /\ pc = "read"
    /\ data' = vdf.bytes
    /\ pc' = "index"
    /\ UNCHANGED << steam, vdf, grid, argv, EXE, STARTDIR, user_id, index,
                    appid, entry, asset, exitcode, runs, failures, vdfInit,
                    vdf0, assigned, attempts, pureVars >>

\* index = get_latest_index(data) + 1
ComputeIndex ==
    /\ pc = "index"
    /\ index' = get_latest_index(data) + 1
    /\ pc' = "entry"
    /\ UNCHANGED << steam, vdf, grid, argv, EXE, STARTDIR, user_id, data,
                    appid, entry, asset, exitcode, runs, failures, vdfInit,
                    vdf0, assigned, attempts, pureVars >>

\* appid and entry
BuildEntry ==
    /\ pc = "entry"
    /\ appid' = AppId(APPNAME, EXE)
    /\ entry' = make_entry(index, appid', APPNAME, EXE, STARTDIR)
    /\ pc' = "splice"
    /\ UNCHANGED << steam, vdf, grid, argv, EXE, STARTDIR, user_id, data,
                    index, asset, exitcode, runs, failures, vdfInit, vdf0,
                    assigned, attempts, pureVars >>

\* variant: only the last byte is tested
WellTerminatedOneByte(bytes) == EndsWith(bytes, << 8 >>)

\* b"\x08\x08" closes the file
WellTerminated(bytes) == EndsWith(bytes, Terminator)

\* insert the entry before the last two bytes and rewrite the file, or exit
WriteShortcuts ==
    /\ pc = "splice"
    /\ IF WellTerminated(data)
       THEN /\ vdf' = File(Splice(data, entry))
            /\ assigned' = Append(assigned, index)
            /\ pc' = "grid"
            /\ UNCHANGED exitcode
       ELSE /\ Exit(1)
            /\ UNCHANGED << vdf, assigned >>
    /\ UNCHANGED << steam, grid, argv, EXE, STARTDIR, user_id, data, index,
                    appid, entry, asset, runs, failures, vdfInit, vdf0,
                    attempts, pureVars >>

\* os.makedirs(grid_dir, exist_ok=True) and the start of the loop
MakeGridDir ==
    /\ pc = "grid"
    /\ asset' = 1
    /\ pc' = "download"
    /\ UNCHANGED << steam, vdf, grid, argv, EXE, STARTDIR, user_id, data,
                    index, appid, entry, exitcode, runs, failures, vdfInit,
                    vdf0, assigned, attempts, pureVars >>

\* ------------------------------------------------------------------------
\* Artwork loop: one action per outcome of one iteration
\* ------------------------------------------------------------------------
NumAssets == Len(STEAMGRIDDB_IMAGES)

\* ext = ".ico" if url.endswith(".ico") else ".png"
Ext(a) == IF a.urlext = ".ico" THEN ".ico" ELSE ".png"

\* file name f"{appid}{suffix}{ext}" inside grid_dir
GridPath(id, a) == << DecStr32(id), a.suffix, Ext(a) >>

\* resp.read(): the whole image behind the URL of asset a
Body(a) == << "image", a.suffix, a.urlext >>

\* open(path, "wb") before anything is written
EmptyFile == << >>

PathExists(path) == path \in DOMAIN grid

InLoop == pc = "download" /\ asset >= 1 /\ asset <= NumAssets

Log(result) ==
    attempts' = Append(attempts, [suffix |-> STEAMGRIDDB_IMAGES[asset].suffix,
                                  result |-> result])

\* if os.path.exists(path): continue
SkipExisting ==
    /\ InLoop
    /\ PathExists(GridPath(appid, STEAMGRIDDB_IMAGES[asset]))
    /\ Log("skipped")
    /\ asset' = asset + 1
    /\ UNCHANGED << steam, vdf, grid, pc, argv, EXE, STARTDIR, user_id, data,
                    index, appid, entry, exitcode, runs, failures, vdfInit,
                    vdf0, assigned, pureVars >>

\* urlopen, open and write all succeed
DownloadSaved ==
    /\ InLoop
    /\ LET a == STEAMGRIDDB_IMAGES[asset]
       IN  /\ ~ PathExists(GridPath(appid, a))
           /\ grid' = (GridPath(appid, a) :> Body(a)) @@ grid
    /\ Log("saved")
    /\ asset' = asset + 1
    /\ UNCHANGED << steam, vdf, pc, argv, EXE, STARTDIR, user_id, data, index,
                    appid, entry, exitcode, runs, failures, vdfInit, vdf0,
                    assigned, pureVars >>

\* variant: the exception is not caught and ends the script
DownloadConnectFailsAborts ==
    /\ InLoop
    /\ failures < MaxFailures
    /\ ~ PathExists(GridPath(appid, STEAMGRIDDB_IMAGES[asset]))
    /\ failures' = failures + 1
    /\ Log("failed")
    /\ Exit(1)
    /\ UNCHANGED << steam, vdf, grid, argv, EXE, STARTDIR, user_id, data,
                    index, appid, entry, asset, runs, vdfInit, vdf0, assigned,
                    pureVars >>

\* urlopen raises (URLError, HTTPError): the file is never opened
DownloadConnectFails ==
    /\ InLoop
    /\ failures < MaxFailures
    /\ ~ PathExists(GridPath(appid, STEAMGRIDDB_IMAGES[asset]))
    /\ failures' = failures + 1
    /\ Log("failed")
    /\ asset' = asset + 1
    /\ UNCHANGED << steam, vdf, grid, pc, argv, EXE, STARTDIR, user_id, data,
                    index, appid, entry, exitcode, runs, vdfInit, vdf0,
                    assigned, pureVars >>

\* urlopen succeeds, open(path, "wb") creates the file, resp.read() raises
DownloadReadFails ==
    /\ InLoop
    /\ failures < MaxFailures
    /\ LET a == STEAMGRIDDB_IMAGES[asset]
       IN  /\ ~ PathExists(GridPath(appid, a))
           /\ grid' = (GridPath(appid, a) :> EmptyFile) @@ grid
    /\ failures' = failures + 1
    /\ Log("failed")
    /\ asset' = asset + 1
    /\ UNCHANGED << steam, vdf, pc, argv, EXE, STARTDIR, user_id, data, index,
                    appid, entry, exitcode, runs, vdfInit, vdf0, assigned,
                    pureVars >>

\* the loop is over: the script runs off its end
Finish ==
    /\ pc = "download"
    /\ asset = NumAssets + 1
    /\ Exit(0)
    /\ UNCHANGED << steam, vdf, grid, argv, EXE, STARTDIR, user_id, data,
                    index, appid, entry, asset, runs, failures, vdfInit, vdf0,
                    assigned, attempts, pureVars >>

Next ==
    \/ Invoke
    \/ ParseArgs
    \/ LocateShortcuts
    \/ EnsureExists
    \/ ReadData
    \/ ComputeIndex
    \/ BuildEntry
    \/ WriteShortcuts
    \/ MakeGridDir
    \/ SkipExisting
    \/ DownloadSaved
    \/ DownloadConnectFails
    \/ DownloadReadFails
    \/ Finish

Spec == Init /\ [][Next]_vars

\* ------------------------------------------------------------------------
\* Function-level specification: the appid, make_entry, the splice and
\* get_latest_index applied to inputs drawn from bounded sets
\* ------------------------------------------------------------------------
\* display names: "Minecraft Splitscreen", "7", "Mé€"
PureNames == { APPNAME, << 55 >>, << 77, 233, 8364 >> }
\* executable paths: "/r", "/pnq", "/é"
PureExes == { << 47, 114 >>, << 47, 112, 110, 113 >>, << 47, 233 >> }
\* start directories: "/d", "12"
PureDirs == { << 47, 100 >>, << 49, 50 >> }
\* database blobs: empty collection, one record, bare terminator, a blob
\* whose last bytes before the terminator are a zero and a digit, and a blob
\* that lacks the second terminator byte
PureBlobs ==
    { Skeleton,
      Header \o SteamRecord \o Terminator,
      Terminator,
      Header \o << 1, 120, 0, 53 >> \o Terminator,
      Header \o SteamRecord }

PureInit ==
    /\ steam = [exists |-> TRUE, names |-> << SteamUser >>]
    /\ vdf = Absent
    /\ grid = << >>
    /\ user_id = SteamUser
    /\ ProcInit
    /\ runs = 0
    /\ failures = 0
    /\ vdfInit = vdf
    /\ vdf0 = vdf
    /\ assigned = << >>
    /\ pB \in PureBlobs
    /\ pI \in 0..MaxIndex
    /\ pName \in PureNames
    /\ pExe \in PureExes
    /\ pDir \in PureDirs
    /\ pId = NoWord /\ pR = << >> /\ pOut = << >> /\ pNext = -1
    /\ pStep = "start"

\* appid = 0x80000000 | crc32(...) & 0xFFFFFFFF
PureGenerate ==
    /\ pStep = "start"
    /\ pId' = AppId(pName, pExe)
    /\ pStep' = "id"
    /\ UNCHANGED << progVars, pB, pI, pName, pExe, pDir, pR, pOut, pNext >>

\* entry = make_entry(...)
PureEncode ==
    /\ pStep = "id"
    /\ pR' = make_entry(pI, pId, pName, pExe, pDir)
    /\ pStep' = "rec"
    /\ UNCHANGED << progVars, pB, pI, pName, pExe, pDir, pId, pOut, pNext >>

\* the splice, or its refusal when the blob is not closed by b"\x08\x08"
PureInsert ==
    /\ pStep = "rec"
    /\ IF WellTerminated(pB)
       THEN pOut' = Splice(pB, pR) /\ pStep' = "out"
       ELSE pOut' = pOut /\ pStep' = "rejected"
    /\ UNCHANGED << progVars, pB, pI, pName, pExe, pDir, pId, pR, pNext >>

\* get_latest_index(new_data) + 1
PureNextIndex ==
    /\ pStep = "out"
    /\ pNext' = get_latest_index(pOut) + 1
    /\ pStep' = "next"
    /\ UNCHANGED << progVars, pB, pI, pName, pExe, pDir, pId, pR, pOut >>

PureNext == PureGenerate \/ PureEncode \/ PureInsert \/ PureNextIndex

PureSpec == PureInit /\ [][PureNext]_vars

\* ------------------------------------------------------------------------
\* Properties
\* ------------------------------------------------------------------------
\* the bytes the current invocation read: the file it found, or the skeleton
\* it created
BytesAtStart == IF vdf0.exists THEN vdf0.bytes ELSE Skeleton

\* the current invocation has rewritten shortcuts.vdf
Written == pc \in { "grid", "download" } \/ (pc = "exited" /\ asset >= 1)

\* the current invocation has read the file and built its entry
EntryBuilt == pc = "splice" \/ Written \/ (pc = "exited" /\ entry # << >>)

\* C1: once an invocation has written the file, the file is the blob B it
\* found with the new record inserted before B's last two bytes: B ends with
\* 08 08, every byte of B before them is where it was, the record follows,
\* and B's last two bytes close the file.
C1_SpliceKeepsBytes ==
    Written =>
        LET B == BytesAtStart
            N == vdf.bytes
        IN  /\ Len(B) >= 2 /\ B[Len(B) - 1] = 8 /\ B[Len(B)] = 8
            /\ Len(N) = Len(B) + Len(entry)
            /\ \A i \in 1..(Len(B) - 2) : N[i] = B[i]
            /\ \A j \in 1..Len(entry) : N[Len(B) - 2 + j] = entry[j]
            /\ N[Len(N) - 1] = B[Len(B) - 1]
            /\ N[Len(N)] = B[Len(B)]

\* C1 witness: a finished invocation that inserted into a file holding records
C1_Witness ==
    /\ pc = "exited" /\ exitcode = 0
    /\ vdf0.exists /\ Len(vdf0.bytes) > Len(Skeleton)

\* C2: when the bytes read do not end with 08 08 the invocation never writes
\* the file (it stays what it was when the invocation started), never reaches
\* the artwork phase, and exits with status 1.
C2_RejectsWithoutWrite ==
    (EntryBuilt /\ ~ (Len(data) >= 2 /\ data[Len(data) - 1] = 8 /\ data[Len(data)] = 8)) =>
        /\ vdf = vdf0
        /\ ~ Written
        /\ (pc = "exited" => exitcode = 1)

\* C2 witness: an invocation that read an unterminated file and has exited
C2_Witness ==
    /\ pc = "exited" /\ exitcode = 1 /\ entry # << >>
    /\ data[Len(data)] = 8 /\ data[Len(data) - 1] # 8

\* C5: when the file is missing the invocation creates it as
\* 00 "shortcuts" 00 08 08, the index computed from it is 0, and after the
\* write the file is the header, the one record with index 0 and 08 08.
C5_BootstrapFromMissingFile ==
    (~ vdf0.exists) =>
        /\ (pc \in { "read", "index", "entry", "splice" } =>
                vdf = File(<< 0, 115, 104, 111, 114, 116, 99, 117, 116, 115, 0, 8, 8 >>))
        /\ (pc \in { "entry", "splice" } => index = 0)
        /\ (Written =>
                /\ index = 0
                /\ SubSeq(entry, 1, 3) = << 0, 48, 0 >>
                /\ entry = make_entry(0, appid, APPNAME, EXE, STARTDIR)
                /\ vdf.bytes = << 0, 115, 104, 111, 114, 116, 99, 117, 116, 115, 0 >>
                                 \o entry \o << 8, 8 >>)

\* C5 witness: a finished invocation that started without a file
C5_Witness == pc = "exited" /\ exitcode = 0 /\ ~ vdf0.exists

\* exit with "File structure not recognized"
StructureError == pc = "exited" /\ exitcode = 1 /\ entry # << >>

\* C9: no step turns a file that ends with 08 08 into one that does not, or
\* removes the header it starts with; the file the script creates ends with
\* 08 08; and once a record has been written no invocation exits with the
\* structure error.
C9_TerminationPreserved ==
    /\ [][ /\ (vdf.exists /\ EndsWith(vdf.bytes, << 8, 8 >>)) =>
                EndsWith(vdf'.bytes, << 8, 8 >>)
           /\ (vdf.exists /\ StartsWith(vdf.bytes, Header)) =>
                StartsWith(vdf'.bytes, Header)
           /\ (~ vdf.exists /\ vdf'.exists) =>
                (EndsWith(vdf'.bytes, << 8, 8 >>) /\ StartsWith(vdf'.bytes, Header))
         ]_vars
    /\ [](assigned # << >> => (EndsWith(vdf.bytes, << 8, 8 >>) /\ ~ StructureError))

\* C9 witness: a second invocation has written after a first one did
C9_Witness == Len(assigned) >= 2 /\ pc = "exited" /\ exitcode = 0

\* C8: in the artwork phase every asset before the current one has been
\* attempted (saved, skipped or failed), in order; an invocation that wrote
\* the file exits with status 0 after all five assets were attempted; and
\* the file keeps the content that was written.
C8_ArtworkFailuresTolerated ==
    Written =>
        /\ vdf = File(Splice(data, entry))
        /\ (pc = "download" => Len(attempts) = asset - 1)
        /\ \A k \in 1..Len(attempts) :
               /\ k <= 5
               /\ attempts[k].suffix = STEAMGRIDDB_IMAGES[k].suffix
               /\ attempts[k].result \in { "saved", "skipped", "failed" }
        /\ (pc = "exited" => (exitcode = 0 /\ Len(attempts) = 5))

\* C8 witness: a finished invocation in which a fetch failed and the next
\* asset was still downloaded
C8_Witness ==
    /\ pc = "exited" /\ exitcode = 0
    /\ \E k \in 1..(Len(attempts) - 1) :
           attempts[k].result = "failed" /\ attempts[k + 1].result = "saved"

\* C10 (as claimed): every file of the grid directory holds the complete
\* image of its asset, an asset skipped as existing has its complete image,
\* and a failed fetch leaves no file at its path.
C10_GridFilesComplete ==
    /\ \A path \in DOMAIN grid :
           \E k \in 1..NumAssets :
               /\ path[2] = STEAMGRIDDB_IMAGES[k].suffix
               /\ grid[path] = Body(STEAMGRIDDB_IMAGES[k])
    /\ \A k \in 1..Len(attempts) :
           attempts[k].result = "failed" =>
               ~ PathExists(GridPath(appid, STEAMGRIDDB_IMAGES[k]))

RECURSIVE MaxOf(_)
\* largest element of a non-empty sequence of naturals
MaxOf(q) ==
    IF Len(q) = 1 THEN q[1]
    ELSE LET m == MaxOf(Tail(q)) IN IF q[1] > m THEN q[1] ELSE m

\* C3 (as claimed): starting from a missing or empty database, each written
\* record gets the highest index written before plus one (0 for the first),
\* so the indices are pairwise distinct and strictly increasing.
C3_IndicesSequential ==
    (vdfInit \in { Absent, File(Skeleton) }) =>
        /\ \A k \in 1..Len(assigned) :
               assigned[k] = IF k = 1 THEN 0
                             ELSE MaxOf(SubSeq(assigned, 1, k - 1)) + 1
        /\ \A j, k \in 1..Len(assigned) : j < k => assigned[j] < assigned[k]

\* ------------------------------------------------------------------------
\* Properties of the functions
\* ------------------------------------------------------------------------
\* C4 (as claimed): for a blob closed by 08 08 and a record encoded with
\* index i, the index scan of the spliced result yields i + 1.
C4_NextIndexAfterInsert == pStep = "next" => pNext = pI + 1

\* C6: the appid keeps the low 31 bits of the CRC-32 of the UTF-8 bytes of
\* name + path and has bit 31 set, so it lies in [2^31, 2^32 - 1].
C6_AppIdTopBitSet ==
    pStep = "id" =>
        LET crc == Crc32(Utf8Encode(pName \o pExe))
        IN  /\ pId[1] \in 32768..65535
            /\ pId[2] \in 0..65535
            /\ pId[1] - 32768 = crc[1] % 32768
            /\ pId[2] = crc[2]

\* C6 witness: an appid whose CRC-32 has bit 31 clear
C6_Witness ==
    /\ pStep = "id"
    /\ Crc32(Utf8Encode(pName \o pExe))[1] < 32768

\* decoding of UTF-8 bytes into code points (<< -1 >> when malformed)
Utf8Decode(b) ==
    LET leads == { i \in 1..Len(b) : b[i] < 128 \/ b[i] >= 192 }
        width(i) == IF b[i] < 128 THEN 1 ELSE IF b[i] < 224 THEN 2 ELSE 3
        cont(i) == i <= Len(b) /\ b[i] >= 128 /\ b[i] < 192
        valid == /\ \A i \in leads : \A j \in 1..(width(i) - 1) : cont(i + j)
                 /\ \A i \in 1..Len(b) : i \in leads \/ \E l \in leads :
                                             l < i /\ i < l + width(l)
        cp(i) == IF b[i] < 128 THEN b[i]
                 ELSE IF b[i] < 224 THEN (b[i] - 192) * 64 + (b[i + 1] - 128)
                 ELSE (b[i] - 224) * 4096 + (b[i + 1] - 128) * 64 + (b[i + 2] - 128)
    IN  IF ~ valid THEN << -1 >>
        ELSE [k \in 1..Cardinality(leads) |->
                 cp(CHOOSE i \in leads : Cardinality({ j \in leads : j <= i }) = k)]

RECURSIVE ParseDec32(_, _)
\* value of a run of decimal digits as a 32-bit word (acc is the value so far)
ParseDec32(ds, acc) ==
    IF ds = << >> THEN acc
    ELSE LET lo == acc[2] * 10 + (Head(ds) - 48)
         IN  ParseDec32(Tail(ds), << acc[1] * 10 + (lo \div 65536), lo % 65536 >>)

\* position of the first zero byte at or after from (0 when there is none)
NextZeroFrom(R, from) ==
    LET zs == { z \in from..Len(R) : R[z] = 0 }
    IN  IF zs = { } THEN 0 ELSE CHOOSE z \in zs : \A y \in zs : z <= y

\* the bytes lit stand at position at of R
HasAt(R, at, lit) ==
    /\ at >= 1
    /\ at + Len(lit) - 1 <= Len(R)
    /\ SubSeq(R, at, at + Len(lit) - 1) = lit

\* a string field (tag 01, name, 00, value, 00) stands at position at of R
\* and holds value: the position after the field, 0 otherwise
StringField(R, at, name, value) ==
    LET lit == << 1 >> \o name \o << 0 >>
        z == NextZeroFrom(R, at + Len(lit))
    IN  IF at >= 1 /\ HasAt(R, at, lit) /\ z # 0
           /\ Utf8Decode(SubSeq(R, at + Len(lit), z - 1)) = value
        THEN z + 1 ELSE 0

\* the text of the icon path: prefix, "/grid/", ten digits naming the appid,
\* "_icon.ico"
IsIconPath(text, prefix, id) ==
    LET n == Len(prefix)
    IN  /\ Len(text) = n + 6 + 10 + 9
        /\ SubSeq(text, 1, n) = prefix
        /\ SubSeq(text, n + 1, n + 6) = << 47, 103, 114, 105, 100, 47 >>
        /\ \A i \in (n + 7)..(n + 16) : IsDigit(text[i])
        /\ text[n + 7] # 48
        /\ ParseDec32(SubSeq(text, n + 7, n + 16), << 0, 0 >>) = id
        /\ SubSeq(text, n + 17, n + 25) = << 95, 105, 99, 111, 110, 46, 105, 99, 111 >>

\* C7: an encoded record reads, in order: 00, the decimal index, 00; 02
\* "appid" 00 and the appid in 4 little-endian bytes; 01 "appname" 00 name 00;
\* 01 "exe" 00 path 00; 01 "StartDir" 00 directory 00; 01 "icon" 00
\* config_dir "/grid/" decimal appid "_icon.ico" 00; and one closing 08.
C7_RecordLayout ==
    pStep = "rec" =>
        LET R == pR
            z1 == NextZeroFrom(R, 2)
            digits == SubSeq(R, 2, z1 - 1)
            a == z1 + 1
            f1 == a + 11
            f2 == StringField(R, f1, << 97, 112, 112, 110, 97, 109, 101 >>, pName)
            f3 == StringField(R, f2, << 101, 120, 101 >>, pExe)
            f4 == StringField(R, f3, << 83, 116, 97, 114, 116, 68, 105, 114 >>, pDir)
            iv == f4 + 6
            z5 == NextZeroFrom(R, iv)
        IN  /\ R[1] = 0
            /\ z1 > 2
            /\ \A i \in 1..Len(digits) : IsDigit(digits[i])
            /\ (Len(digits) > 1 => digits[1] # 48)
            /\ ParseInt(digits, 0) = pI
            /\ HasAt(R, a, << 2, 97, 112, 112, 105, 100, 0 >>)
            /\ R[a + 7] + 256 * R[a + 8] = pId[2]
            /\ R[a + 9] + 256 * R[a + 10] = pId[1]
            /\ f2 # 0 /\ f3 # 0 /\ f4 # 0
            /\ HasAt(R, f4, << 1, 105, 99, 111, 110, 0 >>)
            /\ z5 # 0
            /\ IsIconPath(Utf8Decode(SubSeq(R, iv, z5 - 1)), config_dir, pId)
            /\ z5 + 1 = Len(R)
            /\ R[Len(R)] = 8

\* C7 witness: a record with a two-digit index and a name outside ASCII
C7_Witness ==
    /\ pStep = "rec"
    /\ pI >= 10
    /\ \E i \in 1..Len(pName) : pName[i] > 127

====
